---------------------------- MODULE Spec2Model ----------------------------
(***************************************************************************)
(* Model of cache.py: the CoverArtGenerator class (colour parsing,         *)
(* parameter validation, tile geometry, bounding boxes, cover-art          *)
(* resolution and the assembly loop of load_images).                       *)
(*                                                                         *)
(* Representation of Python values:                                        *)
(*   - a str is a sequence of one-character strings;                       *)
(*   - None is the empty tuple; an Optional value v is <<v>>;              *)
(*   - a JSON value whose type matters is [type, truthy];                  *)
(*   - (None, None, None, None) and (None, None) are both NoBox.           *)
(***************************************************************************)
EXTENDS Integers, Sequences, FiniteSets, TLC

VARIABLES
  pc,                                 \* position of the request being served
  dimension, image_size, background,  \* CoverArtGenerator fields
  skip_missing, show_caa_image_for_missing_covers, tile_size,
  mbids, tile_addrs, layout,          \* arguments of load_images
  tiles, ti, url, images,             \* locals of load_images
  err,                                \* result of validate_parameters
  exc,                                \* exception raised by load_images
  popped,                             \* history: identifiers popped so far
  address, bbox,                      \* argument / result of calculate_bounding_box
  date_range,                         \* time range of a stats request
  response,                           \* what the stats host answers to a request
  http_requests                       \* history: number of HTTP requests sent

vars == <<pc, dimension, image_size, background, skip_missing,
          show_caa_image_for_missing_covers, tile_size, mbids, tile_addrs,
          layout, tiles, ti, url, images, err, exc, popped, address, bbox,
          date_range, response, http_requests>>

\* the variables of the HTTP exchange
net == <<date_range, response, http_requests>>

-----------------------------------------------------------------------------
(* Bounds of the model *)

MaxQueue == 4

MaxLayout == 3

MaxColorLen == 8

MaxAddrCells == 2

MaxReleases == 3

-----------------------------------------------------------------------------
(* Python values *)

None == <<>>

NoBox == <<>>

ValueError == <<>>

JsonBool(b) == [type |-> "bool", truthy |-> b]

JsonOther == { [type |-> "str", truthy |-> TRUE], [type |-> "int", truthy |-> FALSE] }

Min(a, b) == IF a <= b THEN a ELSE b

Max(a, b) == IF a >= b THEN a ELSE b

-----------------------------------------------------------------------------
(* str methods and int() *)

RECURSIVE lstrip(_)
lstrip(s) == IF s # <<>> /\ Head(s) = " " THEN lstrip(Tail(s)) ELSE s

RECURSIVE rstrip(_)
rstrip(s) ==
  IF s # <<>> /\ s[Len(s)] = " " THEN rstrip(SubSeq(s, 1, Len(s) - 1)) ELSE s

strip(s) == rstrip(lstrip(s))

RECURSIVE split(_, _)
split(s, sep) ==
  IF \E i \in 1..Len(s) : s[i] = sep
  THEN LET i == CHOOSE k \in 1..Len(s) :
                  s[k] = sep /\ \A j \in 1..(k - 1) : s[j] # sep
       IN  <<SubSeq(s, 1, i - 1)>> \o split(SubSeq(s, i + 1, Len(s)), sep)
  ELSE <<s>>

startswith(s, c) == Len(s) >= 1 /\ s[1] = c

\* Python s[a:b] for 0 <= a <= b
slice(s, a, b) ==
  IF a + 1 > Min(b, Len(s)) THEN <<>> ELSE SubSeq(s, a + 1, Min(b, Len(s)))

LowerDigits ==
  <<"0", "1", "2", "3", "4", "5", "6", "7", "8", "9", "a", "b", "c", "d", "e", "f">>

UpperDigits ==
  <<"0", "1", "2", "3", "4", "5", "6", "7", "8", "9", "A", "B", "C", "D", "E", "F">>

DigitValue(c) ==
  IF \E i \in 1..16 : LowerDigits[i] = c
  THEN (CHOOSE i \in 1..16 : LowerDigits[i] = c) - 1
  ELSE IF \E i \in 1..16 : UpperDigits[i] = c
  THEN (CHOOSE i \in 1..16 : UpperDigits[i] = c) - 1
  ELSE -1

RECURSIVE digits_value(_, _)
digits_value(s, base) ==
  IF s = <<>> THEN 0
  ELSE digits_value(SubSeq(s, 1, Len(s) - 1), base) * base + DigitValue(s[Len(s)])

\* int(s, base): <<n>>, or ValueError. Surrounding blanks, one sign and (base
\* 16) a 0x prefix are accepted; at least one digit of the base must follow.
int(s, base) ==
  LET t == strip(s)
      signed == t # <<>> /\ t[1] \in {"+", "-"}
      u == IF signed THEN Tail(t) ELSE t
      v == IF base = 16 /\ Len(u) >= 2 /\ u[1] = "0" /\ u[2] \in {"x", "X"}
           THEN SubSeq(u, 3, Len(u)) ELSE u
      n == digits_value(v, base)
  IN  IF v = <<>> \/ \E i \in 1..Len(v) : DigitValue(v[i]) \notin 0..(base - 1)
      THEN ValueError
      ELSE <<IF signed /\ t[1] = "-" THEN 0 - n ELSE n>>

-----------------------------------------------------------------------------
(* Class constants *)

MIN_IMAGE_SIZE == 128

MAX_IMAGE_SIZE == 1024

CAA_MISSING_IMAGE == <<"https://listenbrainz.org/static/img/cover-art-placeholder.jpg">>

\* the catalog with cell 14 listed twice in a 4x4 design
GRID_TILE_DESIGNS_Duplicate ==
  2 :> <<
      << <<"0">>, <<"1">>, <<"2">>, <<"3">> >> >> @@
  3 :> <<
      << <<"0">>, <<"1">>, <<"2">>, <<"3">>, <<"4">>, <<"5">>, <<"6">>, <<"7">>, <<"8">> >>,
      << <<"0",",","1",",","3",",","4">>, <<"2">>, <<"5">>, <<"6">>, <<"7">>, <<"8">> >>,
      << <<"0">>, <<"1">>, <<"2">>, <<"3">>, <<"4",",","5",",","7",",","8">>, <<"6">> >> >> @@
  4 :> <<
      << <<"0">>, <<"1">>, <<"2">>, <<"3">>, <<"4">>, <<"5">>, <<"6">>, <<"7">>, <<"8">>,
         <<"9">>, <<"1","0">>, <<"1","1">>, <<"1","2">>, <<"1","3">>, <<"1","4">>, <<"1","5">> >>,
      << <<"5",",","6",",","9",",","1","0">>, <<"0">>, <<"1">>, <<"2">>, <<"3">>, <<"4">>,
         <<"7">>, <<"8">>, <<"1","1">>, <<"1","2">>, <<"1","3">>, <<"1","4">>, <<"1","5">> >>,
      << <<"0",",","1",",","4",",","5">>, <<"1","0",",","1","1",",","1","4",",","1","5">>,
         <<"1","4">>, <<"3">>, <<"6">>, <<"7">>, <<"8">>, <<"9">>, <<"1","2">>, <<"1","3">> >>,
      << <<"0",",","1",",","2",",","4",",","5",",","6",",","8",",","9",",","1","0">>, <<"3">>,
         <<"7">>, <<"1","1">>, <<"1","2">>, <<"1","3">>, <<"1","4">>, <<"1","5">> >> >> @@
  5 :> <<
      << <<"0">>, <<"1">>, <<"2">>, <<"3">>, <<"4">>, <<"5">>, <<"6">>, <<"7">>, <<"8">>,
         <<"9">>, <<"1","0">>, <<"1","1">>, <<"1","2">>, <<"1","3">>, <<"1","4">>, <<"1","5">>,
         <<"1","6">>, <<"1","7">>, <<"1","8">>, <<"1","9">>, <<"2","0">>, <<"2","1">>,
         <<"2","2">>, <<"2","3">>, <<"2","4">> >>,
      << <<"0",",","1",",","2",",","5",",","6",",","7",",","1","0",",","1","1",",","1","2">>,
         <<"3",",","4",",","8",",","9">>, <<"1","5",",","1","6",",","2","0",",","2","1">>,
         <<"1","3">>, <<"1","4">>, <<"1","7">>, <<"1","8">>, <<"1","9">>, <<"2","2">>,
         <<"2","3">>, <<"2","4">> >> >>

\* the layouts: dimension -> designs -> addresses (a list index i is i + 1 here)
GRID_TILE_DESIGNS ==
  2 :> <<
      << <<"0">>, <<"1">>, <<"2">>, <<"3">> >> >> @@
  3 :> <<
      << <<"0">>, <<"1">>, <<"2">>, <<"3">>, <<"4">>, <<"5">>, <<"6">>, <<"7">>, <<"8">> >>,
      << <<"0",",","1",",","3",",","4">>, <<"2">>, <<"5">>, <<"6">>, <<"7">>, <<"8">> >>,
      << <<"0">>, <<"1">>, <<"2">>, <<"3">>, <<"4",",","5",",","7",",","8">>, <<"6">> >> >> @@
  4 :> <<
      << <<"0">>, <<"1">>, <<"2">>, <<"3">>, <<"4">>, <<"5">>, <<"6">>, <<"7">>, <<"8">>,
         <<"9">>, <<"1","0">>, <<"1","1">>, <<"1","2">>, <<"1","3">>, <<"1","4">>, <<"1","5">> >>,
      << <<"5",",","6",",","9",",","1","0">>, <<"0">>, <<"1">>, <<"2">>, <<"3">>, <<"4">>,
         <<"7">>, <<"8">>, <<"1","1">>, <<"1","2">>, <<"1","3">>, <<"1","4">>, <<"1","5">> >>,
      << <<"0",",","1",",","4",",","5">>, <<"1","0",",","1","1",",","1","4",",","1","5">>,
         <<"2">>, <<"3">>, <<"6">>, <<"7">>, <<"8">>, <<"9">>, <<"1","2">>, <<"1","3">> >>,
      << <<"0",",","1",",","2",",","4",",","5",",","6",",","8",",","9",",","1","0">>, <<"3">>,
         <<"7">>, <<"1","1">>, <<"1","2">>, <<"1","3">>, <<"1","4">>, <<"1","5">> >> >> @@
  5 :> <<
      << <<"0">>, <<"1">>, <<"2">>, <<"3">>, <<"4">>, <<"5">>, <<"6">>, <<"7">>, <<"8">>,
         <<"9">>, <<"1","0">>, <<"1","1">>, <<"1","2">>, <<"1","3">>, <<"1","4">>, <<"1","5">>,
         <<"1","6">>, <<"1","7">>, <<"1","8">>, <<"1","9">>, <<"2","0">>, <<"2","1">>,
         <<"2","2">>, <<"2","3">>, <<"2","4">> >>,
      << <<"0",",","1",",","2",",","5",",","6",",","7",",","1","0",",","1","1",",","1","2">>,
         <<"3",",","4",",","8",",","9">>, <<"1","5",",","1","6",",","2","0",",","2","1">>,
         <<"1","3">>, <<"1","4">>, <<"1","7">>, <<"1","8">>, <<"1","9">>, <<"2","2">>,
         <<"2","3">>, <<"2","4">> >> >>

NamedColors ==
  { <<"t", "r", "a", "n", "s", "p", "a", "r", "e", "n", "t">>,
    <<"w", "h", "i", "t", "e">>,
    <<"b", "l", "a", "c", "k">> }

-----------------------------------------------------------------------------
(* parse_color_code and validate_parameters *)

parse_color_code(color_code) ==
  IF ~startswith(color_code, "#") THEN None
  ELSE LET r == int(slice(color_code, 1, 3), 16)
           g == int(slice(color_code, 3, 5), 16)
           b == int(slice(color_code, 5, 7), 16)
       IN  IF r = ValueError THEN None
           ELSE IF g = ValueError THEN None
           ELSE IF b = ValueError THEN None
           ELSE <<r[1], g[1], b[1]>>

DimensionError ==
  [msg |-> "dimmension must be between 2 and 5, inclusive.", arg |-> <<>>]

BackgroundError(bg) ==
  [msg |-> "background must be one of transparent, white, black or a color code #rrggbb, not {background}",
   arg |-> bg]

ImageSizeError ==
  [msg |-> "image size must be between {MIN_IMAGE_SIZE} and {MAX_IMAGE_SIZE}, inclusive.",
   arg |-> <<>>]

SkipMissingError ==
  [msg |-> "option skip-missing must be of type boolean.", arg |-> <<>>]

\* validate_parameters with the image size checked before the background
validate_parameters_SizeFirst ==
  IF dimension \notin {2, 3, 4, 5} THEN <<DimensionError>>
  ELSE IF image_size < MIN_IMAGE_SIZE \/ image_size > MAX_IMAGE_SIZE
  THEN <<ImageSizeError>>
  ELSE IF background \notin NamedColors /\ parse_color_code(background) = None
  THEN <<BackgroundError(background)>>
  ELSE IF skip_missing.type # "bool" THEN <<SkipMissingError>>
  ELSE None

validate_parameters ==
  IF dimension \notin {2, 3, 4, 5} THEN <<DimensionError>>
  ELSE IF background \notin NamedColors /\ parse_color_code(background) = None
  THEN <<BackgroundError(background)>>
  ELSE IF image_size < MIN_IMAGE_SIZE \/ image_size > MAX_IMAGE_SIZE
  THEN <<ImageSizeError>>
  ELSE IF skip_missing.type # "bool" THEN <<SkipMissingError>>
  ELSE None

-----------------------------------------------------------------------------
(* Tile geometry *)

get_tile_position(tile) ==
  IF tile < 0 \/ tile >= dimension * dimension THEN NoBox
  ELSE LET x == tile % dimension
           y == tile \div dimension
           x1 == x * tile_size
           y1 == y * tile_size
           x2 == IF x = dimension - 1 THEN image_size - 1 ELSE (x + 1) * tile_size
           y2 == IF y = dimension - 1 THEN image_size - 1 ELSE (y + 1) * tile_size
       IN  <<x1, y1, x2, y2>>

\* the loop of lines 169-186 without the comparisons against x2 and y2
RECURSIVE bounding_box_loop_CornersOnly(_, _, _)
bounding_box_loop_CornersOnly(ts, i, bb) ==
  IF i > Len(ts) THEN bb
  ELSE LET p == get_tile_position(ts[i])
       IN  bounding_box_loop_CornersOnly(ts, i + 1,
             IF i = 1 THEN p
             ELSE << Min(bb[1], p[1]), Min(bb[2], p[2]),
                     Max(bb[3], p[1]), Max(bb[4], p[2]) >>)

\* the loop of lines 169-186, from the i-th tile on, bb being the box so far
RECURSIVE bounding_box_loop(_, _, _)
bounding_box_loop(ts, i, bb) ==
  IF i > Len(ts) THEN bb
  ELSE LET p == get_tile_position(ts[i])
       IN  bounding_box_loop(ts, i + 1,
             IF i = 1 THEN p
             ELSE << Min(Min(bb[1], p[1]), p[3]), Min(Min(bb[2], p[2]), p[4]),
                     Max(Max(bb[3], p[1]), p[3]), Max(Max(bb[4], p[2]), p[4]) >>)

calculate_bounding_box(addr) ==
  LET toks == split(addr, ",")
      parsed == [i \in 1..Len(toks) |-> int(strip(toks[i]), 10)]
  IN  IF \E i \in 1..Len(toks) : parsed[i] = ValueError THEN NoBox
      ELSE LET ts == [i \in 1..Len(toks) |-> parsed[i][1]]
           IN  IF \E i \in 1..Len(ts) : ts[i] < 0 \/ ts[i] >= dimension * dimension
               THEN NoBox
               ELSE bounding_box_loop(ts, 1, NoBox)

-----------------------------------------------------------------------------
(* Cover art resolution *)

\* the rows of the cover art archive: release mbid -> id of its front image
CaaRows == ("a" :> 101) @@ ("b" :> 202)

get_caa_id(release_mbid) ==
  IF release_mbid \in DOMAIN CaaRows THEN <<CaaRows[release_mbid]>> ELSE None

resolve_cover_art(release_mbid) ==
  IF release_mbid = None THEN None
  ELSE LET caa_id == get_caa_id(release_mbid[1])
       IN  IF caa_id = None THEN None
           ELSE << "https://archive.org/download/mbid-", release_mbid[1], "/mbid-",
                   release_mbid[1], "-", caa_id[1], "_thumb500.jpg" >>

\* the image of a tile without cover art, were the placeholder never used
missing_cover_url_Never == None

\* lines 231-234 and 238-241: the image of a tile without cover art
missing_cover_url ==
  IF show_caa_image_for_missing_covers.truthy THEN CAA_MISSING_IMAGE ELSE None

\* line 245
placement(box, u) ==
  [x |-> box[1], y |-> box[2], width |-> box[3] - box[1],
   height |-> box[4] - box[2], url |-> u]

-----------------------------------------------------------------------------
(* Exceptions *)

IndexError == [type |-> "IndexError", msg |-> "list index out of range", arg |-> <<>>]

BadRequest(addr) ==
  [type |-> "BadRequest", msg |-> "Invalid address {addr} specified.", arg |-> addr]

-----------------------------------------------------------------------------
(* Operations *)

\* validate_parameters, as called by every request handler after construction
Validate ==
  /\ pc = "constructed"
  /\ err' = validate_parameters
  /\ pc' = IF validate_parameters = None THEN "validated" ELSE "rejected"
  /\ UNCHANGED net
  /\ UNCHANGED <<dimension, image_size, background, skip_missing,
                 show_caa_image_for_missing_covers, tile_size, mbids, tile_addrs,
                 layout, tiles, ti, url, images, exc, popped, address, bbox>>

\* lines 207-221, were an invalid address passed over instead of raising
LoadImagesResolveLayout_SkipInvalid ==
  /\ pc = "validated"
  /\ IF layout # None /\ layout[1] >= Len(GRID_TILE_DESIGNS[dimension])
     THEN /\ pc' = "failed"
          /\ exc' = <<IndexError>>
          /\ UNCHANGED <<tiles, ti, images>>
     ELSE LET addrs == IF layout # None
                       THEN GRID_TILE_DESIGNS[dimension][layout[1] + 1]
                       ELSE IF tile_addrs = None
                       THEN GRID_TILE_DESIGNS[dimension][1]
                       ELSE tile_addrs[1]
              boxes == [i \in 1..Len(addrs) |-> calculate_bounding_box(addrs[i])]
          IN  /\ pc' = "assembling"
              /\ tiles' = SelectSeq(boxes, LAMBDA b : b # NoBox)
              /\ ti' = 1
              /\ images' = <<>>
              /\ exc' = exc
  /\ UNCHANGED net
  /\ UNCHANGED <<dimension, image_size, background, skip_missing,
                 show_caa_image_for_missing_covers, tile_size, mbids, tile_addrs,
                 layout, url, err, popped, address, bbox>>

\* load_images, lines 207-221: choose the addresses, compute the tile boxes
LoadImagesResolveLayout ==
  /\ pc = "validated"
  /\ IF layout # None /\ layout[1] >= Len(GRID_TILE_DESIGNS[dimension])
     THEN /\ pc' = "failed"
          /\ exc' = <<IndexError>>
          /\ UNCHANGED <<tiles, ti, images>>
     ELSE LET addrs == IF layout # None
                       THEN GRID_TILE_DESIGNS[dimension][layout[1] + 1]
                       ELSE IF tile_addrs = None
                       THEN GRID_TILE_DESIGNS[dimension][1]
                       ELSE tile_addrs[1]
              boxes == [i \in 1..Len(addrs) |-> calculate_bounding_box(addrs[i])]
          IN  IF \E i \in 1..Len(addrs) : boxes[i] = NoBox
              THEN LET bad == CHOOSE i \in 1..Len(addrs) :
                                /\ boxes[i] = NoBox
                                /\ \A j \in 1..(i - 1) : boxes[j] # NoBox
                   IN  /\ pc' = "failed"
                       /\ exc' = <<BadRequest(addrs[bad])>>
                       /\ tiles' = SubSeq(boxes, 1, bad - 1)
                       /\ UNCHANGED <<ti, images>>
              ELSE /\ pc' = "assembling"
                   /\ tiles' = boxes
                   /\ ti' = 1
                   /\ images' = <<>>
                   /\ exc' = exc
  /\ UNCHANGED net
  /\ UNCHANGED <<dimension, image_size, background, skip_missing,
                 show_caa_image_for_missing_covers, tile_size, mbids, tile_addrs,
                 layout, url, err, popped, address, bbox>>

\* the resolving iteration, were the placement put in front of the list
LoadImagesResolved_Prepend ==
  /\ pc = "assembling" /\ ti <= Len(tiles)
  /\ mbids # <<>>
  /\ resolve_cover_art(Head(mbids)) # None
  /\ mbids' = Tail(mbids)
  /\ popped' = Append(popped, Head(mbids))
  /\ url' = resolve_cover_art(Head(mbids))
  /\ images' = <<placement(tiles[ti], url')>> \o images
  /\ ti' = ti + 1
  /\ UNCHANGED net
  /\ UNCHANGED <<pc, dimension, image_size, background, skip_missing,
                 show_caa_image_for_missing_covers, tile_size, tile_addrs, layout,
                 tiles, err, exc, address, bbox>>

\* one iteration of the while loop: the popped identifier resolves (line 236)
LoadImagesResolved ==
  /\ pc = "assembling" /\ ti <= Len(tiles)
  /\ mbids # <<>>
  /\ resolve_cover_art(Head(mbids)) # None
  /\ mbids' = Tail(mbids)
  /\ popped' = Append(popped, Head(mbids))
  /\ url' = resolve_cover_art(Head(mbids))
  /\ images' = Append(images, placement(tiles[ti], url'))
  /\ ti' = ti + 1
  /\ UNCHANGED net
  /\ UNCHANGED <<pc, dimension, image_size, background, skip_missing,
                 show_caa_image_for_missing_covers, tile_size, tile_addrs, layout,
                 tiles, err, exc, address, bbox>>

\* the skipping iteration, were it to leave the loop and go on to the next box
LoadImagesSkip_NextBox ==
  /\ pc = "assembling" /\ ti <= Len(tiles)
  /\ mbids # <<>>
  /\ resolve_cover_art(Head(mbids)) = None
  /\ skip_missing.truthy
  /\ mbids' = Tail(mbids)
  /\ popped' = Append(popped, Head(mbids))
  /\ url' = None
  /\ ti' = ti + 1
  /\ UNCHANGED images
  /\ UNCHANGED net
  /\ UNCHANGED <<pc, dimension, image_size, background, skip_missing,
                 show_caa_image_for_missing_covers, tile_size, tile_addrs, layout,
                 tiles, err, exc, address, bbox>>

\* one iteration of the while loop: unresolvable, skip_missing (lines 227-229)
LoadImagesSkip ==
  /\ pc = "assembling" /\ ti <= Len(tiles)
  /\ mbids # <<>>
  /\ resolve_cover_art(Head(mbids)) = None
  /\ skip_missing.truthy
  /\ mbids' = Tail(mbids)
  /\ popped' = Append(popped, Head(mbids))
  /\ url' = None
  /\ UNCHANGED <<ti, images>>
  /\ UNCHANGED net
  /\ UNCHANGED <<pc, dimension, image_size, background, skip_missing,
                 show_caa_image_for_missing_covers, tile_size, tile_addrs, layout,
                 tiles, err, exc, address, bbox>>

\* the iteration for an unresolvable identifier without skip_missing, were it
\* to try the next identifier against the same box
LoadImagesMissing_Retry ==
  /\ pc = "assembling" /\ ti <= Len(tiles)
  /\ mbids # <<>>
  /\ resolve_cover_art(Head(mbids)) = None
  /\ ~skip_missing.truthy
  /\ mbids' = Tail(mbids)
  /\ popped' = Append(popped, Head(mbids))
  /\ url' = None
  /\ UNCHANGED <<ti, images>>
  /\ UNCHANGED net
  /\ UNCHANGED <<pc, dimension, image_size, background, skip_missing,
                 show_caa_image_for_missing_covers, tile_size, tile_addrs, layout,
                 tiles, err, exc, address, bbox>>

\* one iteration of the while loop: unresolvable, no skip_missing (lines 230-236)
LoadImagesMissing ==
  /\ pc = "assembling" /\ ti <= Len(tiles)
  /\ mbids # <<>>
  /\ resolve_cover_art(Head(mbids)) = None
  /\ ~skip_missing.truthy
  /\ mbids' = Tail(mbids)
  /\ popped' = Append(popped, Head(mbids))
  /\ url' = missing_cover_url
  /\ images' = IF url' # None THEN Append(images, placement(tiles[ti], url'))
               ELSE images
  /\ ti' = ti + 1
  /\ UNCHANGED net
  /\ UNCHANGED <<pc, dimension, image_size, background, skip_missing,
                 show_caa_image_for_missing_covers, tile_size, tile_addrs, layout,
                 tiles, err, exc, address, bbox>>

\* one iteration of the while loop: pop(0) of the empty list (lines 237-242)
LoadImagesExhausted ==
  /\ pc = "assembling" /\ ti <= Len(tiles)
  /\ mbids = <<>>
  /\ url' = missing_cover_url
  /\ images' = IF url' # None THEN Append(images, placement(tiles[ti], url'))
               ELSE images
  /\ ti' = ti + 1
  /\ UNCHANGED net
  /\ UNCHANGED <<pc, dimension, image_size, background, skip_missing,
                 show_caa_image_for_missing_covers, tile_size, mbids, tile_addrs,
                 layout, tiles, err, exc, popped, address, bbox>>

\* line 247
LoadImagesReturn ==
  /\ pc = "assembling" /\ ti > Len(tiles)
  /\ pc' = "done"
  /\ UNCHANGED net
  /\ UNCHANGED <<dimension, image_size, background, skip_missing,
                 show_caa_image_for_missing_covers, tile_size, mbids, tile_addrs,
                 layout, tiles, ti, url, images, err, exc, popped, address, bbox>>

\* a call of calculate_bounding_box on its own
CalculateBoundingBox ==
  /\ pc = "bbox_call"
  /\ bbox' = calculate_bounding_box(address)
  /\ pc' = "bbox_done"
  /\ UNCHANGED net
  /\ UNCHANGED <<dimension, image_size, background, skip_missing,
                 show_caa_image_for_missing_covers, tile_size, mbids, tile_addrs,
                 layout, tiles, ti, url, images, err, exc, popped, address>>

-----------------------------------------------------------------------------
(* Inputs *)

SeqsUpTo(S, n) == UNION { [1..k -> S] : k \in 0..n }

\* the constructor's default background, "#FFFFFF"
DefaultBackground == <<"#", "F", "F", "F", "F", "F", "F">>

\* identifiers: a and b have a front image, x has none, None is a null entry
Identifiers == { <<"a">>, <<"b">>, <<"x">>, None }

AssembleDimensions == {2, 3}

AssembleSizes == {128, 750}

SampleTileAddrs ==
  { << >>,
    << <<"0">> >>,
    << <<"0", ",", "1">>, <<"2">>, <<"3">> >>,
    << <<" ", "3", " ", ",", "0">>, <<"1">> >>,
    << <<"0">>, <<"4">> >>,
    << <<"1">>, <<"9">>, <<"x">> >>,
    << <<"0">>, <<"1", ",", "x">>, <<"9">> >> }

LoadArgs ==
  { [tile_addrs |-> None, layout |-> None] }
  \cup { [tile_addrs |-> None, layout |-> <<k>>] : k \in 0..MaxLayout }
  \cup { [tile_addrs |-> <<t>>, layout |-> None] : t \in SampleTileAddrs }
  \cup { [tile_addrs |-> << << <<"0">> >> >>, layout |-> <<0>>] }

\* no request has been answered
NoResponse == [status |-> 0, releases |-> <<>>]

\* __init__ (lines 62-69) with the arguments of load_images
Construct(d, s, bg, skip, caa, ids, args) ==
  /\ dimension = d
  /\ image_size = s
  /\ background = bg
  /\ skip_missing = skip
  /\ show_caa_image_for_missing_covers = caa
  /\ tile_size = s \div d
  /\ mbids = ids
  /\ tile_addrs = args.tile_addrs
  /\ layout = args.layout
  /\ tiles = <<>> /\ ti = 0 /\ url = None /\ images = <<>>
  /\ err = None /\ exc = None /\ popped = <<>>
  /\ bbox = NoBox
  /\ http_requests = 0

Init ==
  /\ pc = "constructed"
  /\ \E d \in AssembleDimensions, s \in AssembleSizes,
        skip \in {JsonBool(TRUE), JsonBool(FALSE)},
        caa \in {JsonBool(TRUE), JsonBool(FALSE)},
        ids \in SeqsUpTo(Identifiers, MaxQueue), args \in LoadArgs :
        /\ Construct(d, s, DefaultBackground, skip, caa, ids, args)
        /\ address = <<>>
        /\ response = NoResponse
        /\ date_range = "week"

Next ==
  \/ Validate
  \/ LoadImagesResolveLayout
  \/ LoadImagesResolved
  \/ LoadImagesSkip
  \/ LoadImagesMissing
  \/ LoadImagesExhausted
  \/ LoadImagesReturn

Spec == Init /\ [][Next]_vars

-----------------------------------------------------------------------------
(* Validation of arbitrary request parameters *)

ValidateDimensions == 1..6

ValidateSizes == {100, 127, 128, 750, 1024, 1025}

SampleBackgrounds ==
  NamedColors \cup
  { DefaultBackground,
    <<"#", "1", "2", "G", "4", "5", "6">>,
    <<"#", "1", "2", "3", "4", "5", "6", "7">>,
    <<"p", "u", "r", "p", "l", "e">>,
    <<"#", "a", "B", "c", "D", "0", "9">>,
    << >> }

InitValidate ==
  /\ pc = "constructed"
  /\ \E d \in ValidateDimensions, s \in ValidateSizes, bg \in SampleBackgrounds,
        skip \in {JsonBool(TRUE), JsonBool(FALSE)} \cup JsonOther,
        caa \in {JsonBool(TRUE), JsonBool(FALSE)} \cup JsonOther,
        l \in {None} \cup { <<k>> : k \in 0..MaxLayout } :
        /\ Construct(d, s, bg, skip, caa, <<>>, [tile_addrs |-> None, layout |-> l])
        /\ address = <<>>
        /\ response = NoResponse
        /\ date_range = "week"

NextValidate == Validate

SpecValidate == InitValidate /\ [][NextValidate]_vars

-----------------------------------------------------------------------------
(* Validation of arbitrary background strings *)

ColorAlphabet == {"#", "1", "G"}

InitColor ==
  /\ pc = "constructed"
  /\ \E bg \in SeqsUpTo(ColorAlphabet, MaxColorLen) :
        /\ Construct(3, 750, bg, JsonBool(TRUE), JsonBool(TRUE), <<>>,
                     [tile_addrs |-> None, layout |-> None])
        /\ address = <<>>
        /\ response = NoResponse
        /\ date_range = "week"

SpecColor == InitColor /\ [][NextValidate]_vars

-----------------------------------------------------------------------------
(* Bounding boxes of arbitrary addresses *)

TileDimensions == {2, 3, 4, 5}

TileSizes == {128, 130, 750, 1024}

RECURSIVE CellStr(_)
CellStr(n) ==
  IF n < 10 THEN <<LowerDigits[n + 1]>>
  ELSE CellStr(n \div 10) \o <<LowerDigits[(n % 10) + 1]>>

RECURSIVE AddressOf(_)
AddressOf(cells) ==
  IF Len(cells) = 1 THEN CellStr(cells[1])
  ELSE CellStr(cells[1]) \o <<",">> \o AddressOf(Tail(cells))

CatalogAddresses(d) ==
  UNION { { GRID_TILE_DESIGNS[d][l][i] : i \in 1..Len(GRID_TILE_DESIGNS[d][l]) } :
            l \in 1..Len(GRID_TILE_DESIGNS[d]) }

MalformedAddresses ==
  { << >>, <<"x">>, <<"1", ",", "x">>, <<"1", ",", ",", "2">>, <<"-", "1">>,
    <<" ", "1", " ", ",", " ", "2">>, <<"1", " ", "2">>, <<"+", "1", ",", "0">> }

\* addresses of up to MaxAddrCells indices in 0..d*d (d*d itself is out of range)
Addresses(d) ==
  { AddressOf(cells) :
      cells \in SeqsUpTo(0..(d * d), MaxAddrCells) \ { << >> } }
  \cup CatalogAddresses(d) \cup MalformedAddresses

InitTiles ==
  /\ pc = "bbox_call"
  /\ \E d \in TileDimensions, s \in TileSizes :
        /\ Construct(d, s, DefaultBackground, JsonBool(TRUE), JsonBool(TRUE), <<>>,
                     [tile_addrs |-> None, layout |-> None])
        /\ address \in Addresses(d)
        /\ response = NoResponse
        /\ date_range = "week"

NextTiles == CalculateBoundingBox

SpecTiles == InitTiles /\ [][NextTiles]_vars

-----------------------------------------------------------------------------
(* The grid-stats request: validation, the stats download, load_images *)

\* line 252
DateRanges ==
  { "week", "month", "quarter", "half_yearly", "year", "all_time",
    "this_week", "this_month", "this_year" }

InvalidDateRange ==
  [type |-> "BadRequest", msg |-> "Invalid date range given.", status |-> 0]

\* line 261
StatsFailed(status) ==
  [type |-> "BadRequest", msg |-> "Fetching stats for user {user_name} failed: %d",
   status |-> status]

\* line 270
NoReleases ==
  [type |-> "BadRequest",
   msg |-> "user {user_name} does not have any releases we can fetch. :(",
   status |-> 200]

\* cover_art_grid_stats, lines 362-370: validate the parameters, then look the
\* layout up in the catalog
GridStatsValidate ==
  /\ pc = "stats_request"
  /\ err' = validate_parameters
  /\ pc' = IF validate_parameters # None THEN "rejected"
           ELSE IF layout[1] >= Len(GRID_TILE_DESIGNS[dimension])
           THEN "layout_unavailable"
           ELSE "stats_checked"
  /\ UNCHANGED net
  /\ UNCHANGED <<dimension, image_size, background, skip_missing,
                 show_caa_image_for_missing_covers, tile_size, mbids, tile_addrs,
                 layout, tiles, ti, url, images, exc, popped, address, bbox>>

\* the stats download, were 429 and 503 retried up to six times before a Timeout
DownloadUserStats_Retry ==
  /\ pc = "stats_checked"
  /\ IF date_range \notin DateRanges
     THEN /\ pc' = "failed"
          /\ exc' = <<InvalidDateRange>>
          /\ UNCHANGED <<mbids, http_requests>>
     ELSE /\ http_requests' = http_requests + 1
          /\ IF response.status \in {429, 503}
             THEN IF http_requests < 6
                  THEN UNCHANGED <<pc, exc, mbids>>
                  ELSE /\ pc' = "failed"
                       /\ exc' = <<[type |-> "Timeout", msg |-> "", status |-> response.status]>>
                       /\ mbids' = mbids
             ELSE IF response.status # 200
             THEN /\ pc' = "failed"
                  /\ exc' = <<StatsFailed(response.status)>>
                  /\ mbids' = mbids
             ELSE IF Len(response.releases) = 0
             THEN /\ pc' = "failed"
                  /\ exc' = <<NoReleases>>
                  /\ mbids' = mbids
             ELSE /\ pc' = "validated"
                  /\ mbids' = response.releases
                  /\ exc' = exc
  /\ UNCHANGED <<date_range, response>>
  /\ UNCHANGED <<dimension, image_size, background, skip_missing,
                 show_caa_image_for_missing_covers, tile_size, tile_addrs,
                 layout, tiles, ti, url, images, err, popped, address, bbox>>

\* create_grid_stats_cover, lines 268-272, with download_user_stats, lines
\* 250-264: one GET; the release mbids of the payload become the queue of
\* load_images, which is the next call (pc = "validated")
DownloadUserStats ==
  /\ pc = "stats_checked"
  /\ IF date_range \notin DateRanges
     THEN /\ pc' = "failed"
          /\ exc' = <<InvalidDateRange>>
          /\ UNCHANGED <<mbids, http_requests>>
     ELSE /\ http_requests' = http_requests + 1
          /\ IF response.status # 200
             THEN /\ pc' = "failed"
                  /\ exc' = <<StatsFailed(response.status)>>
                  /\ mbids' = mbids
             ELSE IF Len(response.releases) = 0
             THEN /\ pc' = "failed"
                  /\ exc' = <<NoReleases>>
                  /\ mbids' = mbids
             ELSE /\ pc' = "validated"
                  /\ mbids' = response.releases
                  /\ exc' = exc
  /\ UNCHANGED <<date_range, response>>
  /\ UNCHANGED <<dimension, image_size, background, skip_missing,
                 show_caa_image_for_missing_covers, tile_size, tile_addrs,
                 layout, tiles, ti, url, images, err, popped, address, bbox>>

StatsDimensions == {2, 3, 6}

StatsSizes == {100, 750}

StatusCodes == {200, 403, 404, 429, 500, 503}

SampleDateRanges == {"week", "all_time", "decade"}

InitStats ==
  /\ pc = "stats_request"
  /\ \E d \in StatsDimensions, s \in StatsSizes, l \in 0..MaxLayout :
        /\ Construct(d, s, DefaultBackground, JsonBool(TRUE), JsonBool(TRUE), <<>>,
                     [tile_addrs |-> None, layout |-> <<l>>])
        /\ address = <<>>
  /\ date_range \in SampleDateRanges
  /\ response \in [status : StatusCodes, releases : SeqsUpTo(Identifiers, MaxReleases)]

NextStats ==
  \/ GridStatsValidate
  \/ DownloadUserStats
  \/ LoadImagesResolveLayout
  \/ LoadImagesResolved
  \/ LoadImagesSkip
  \/ LoadImagesExhausted
  \/ LoadImagesReturn

SpecStats == InitStats /\ [][NextStats]_vars

-----------------------------------------------------------------------------
(* Vocabulary of the properties *)

\* the identifier queue as it was passed to load_images
Original == popped \o mbids

\* the identifier has a front image in the cover art archive
Resolvable(id) == id # None /\ id[1] \in DOMAIN CaaRows

Assembled == pc \in {"assembling", "done"}

\* number of boxes the loop has finished
BoxesDone == ti - 1

\* the box (x1, y1, x2, y2) of a placement
BoxOf(img) == <<img.x, img.y, img.x + img.width, img.y + img.height>>

SetMin(S) == CHOOSE m \in S : \A n \in S : m <= n

SetMax(S) == CHOOSE m \in S : \A n \in S : m >= n

\* the tokens of an address, and the tokens that are cell indices of the grid
Tokens(a) == split(a, ",")

IsCell(tok) ==
  /\ int(strip(tok), 10) # ValueError
  /\ int(strip(tok), 10)[1] \in 0..(dimension * dimension - 1)

AllCells(a) == \A k \in 1..Len(Tokens(a)) : IsCell(Tokens(a)[k])

CellsOf(a) == [k \in 1..Len(Tokens(a)) |-> int(strip(Tokens(a)[k]), 10)[1]]

\* the box of cell c as the layout engine is specified
CellBox(c) ==
  LET size == image_size \div dimension
      col == c % dimension
      row == c \div dimension
  IN  << col * size, row * size,
         IF col = dimension - 1 THEN image_size - 1 ELSE (col + 1) * size,
         IF row = dimension - 1 THEN image_size - 1 ELSE (row + 1) * size >>

-----------------------------------------------------------------------------
(* C1 *)

\* C1, as stated: whatever the queue and the policies, load_images returns
\* exactly one placement per tile box.
C1_CountEqualsBoxes == pc = "done" => Len(images) = Len(tiles)

\* C1, amended: load_images never returns more placements than tile boxes; it
\* returns exactly one per box when show_caa_image_for_missing_covers is true,
\* and otherwise one per resolvable identifier it consumed (a box without cover
\* art is left out).
C1_CountPerPolicy ==
  pc = "done" =>
    /\ Len(images) <= Len(tiles)
    /\ show_caa_image_for_missing_covers.truthy => Len(images) = Len(tiles)
    /\ ~show_caa_image_for_missing_covers.truthy =>
         Len(images) = Len(SelectSeq(popped, Resolvable))

C1_Witness ==
  /\ pc = "done"
  /\ show_caa_image_for_missing_covers.truthy
  /\ Len(tiles) >= 3
  /\ Len(images) = Len(tiles)
  /\ \E i \in 1..Len(images) : images[i].url = CAA_MISSING_IMAGE
  /\ \E i \in 1..Len(popped) : ~Resolvable(popped[i])
  /\ \E i \in 1..Len(popped) : popped[i] = None

-----------------------------------------------------------------------------
(* C2 *)

\* C2: with skip_missing, an unresolvable identifier is consumed and the next
\* one is tried against the same box: the k-th box is paired with the k-th
\* resolvable identifier of the queue, no unresolvable identifier is used for
\* a box, and a box is left without cover art only once the queue is empty.
\* Two unresolvable identifiers followed by a resolvable one, against one box,
\* give the single placement of the resolvable one.
C2_SkipRetriesSameBox ==
  (Assembled /\ skip_missing.truthy) =>
    LET R == SelectSeq(popped, Resolvable)
    IN  /\ Len(R) <= BoxesDone
        /\ Len(R) <= Len(images)
        /\ \A k \in 1..Len(R) :
             images[k] = placement(tiles[k], resolve_cover_art(R[k]))
        /\ \A k \in (Len(R) + 1)..Len(images) : images[k].url = CAA_MISSING_IMAGE
        /\ Len(R) < BoxesDone => mbids = <<>>
        /\ ( /\ pc = "done" /\ Len(tiles) = 1 /\ Len(Original) = 3
             /\ ~Resolvable(Original[1]) /\ ~Resolvable(Original[2])
             /\ Resolvable(Original[3]) )
           => /\ images = <<placement(tiles[1], resolve_cover_art(Original[3]))>>
              /\ popped = Original

C2_Witness ==
  /\ pc = "done"
  /\ skip_missing.truthy
  /\ Len(tiles) = 1
  /\ popped = << <<"x">>, None, <<"b">> >>
  /\ mbids = <<>>
  /\ Len(images) = 1
  /\ images[1].url = resolve_cover_art(<<"b">>)

-----------------------------------------------------------------------------
(* C3 *)

\* the image of the k-th box without skip_missing
C3_Url(k) ==
  IF k <= Len(Original) /\ Resolvable(Original[k])
  THEN resolve_cover_art(Original[k])
  ELSE IF show_caa_image_for_missing_covers.truthy THEN CAA_MISSING_IMAGE ELSE None

\* C3: without skip_missing every box consumes exactly one identifier while
\* the queue is not empty: the k-th box gets the k-th identifier's cover art if
\* it resolves and the placeholder of the policy otherwise, and no further
\* identifier is consumed for it.
C3_OneIdentifierPerBox ==
  (Assembled /\ ~skip_missing.truthy) =>
    LET shown == SelectSeq([k \in 1..BoxesDone |-> k], LAMBDA k : C3_Url(k) # None)
    IN  /\ Len(popped) = Min(BoxesDone, Len(Original))
        /\ Len(images) = Len(shown)
        /\ \A j \in 1..Len(shown) :
             images[j] = placement(tiles[shown[j]], C3_Url(shown[j]))
        /\ BoxesDone >= 1 => url = C3_Url(BoxesDone)

C3_Witness ==
  /\ pc = "done"
  /\ ~skip_missing.truthy
  /\ show_caa_image_for_missing_covers.truthy
  /\ Len(tiles) = 3
  /\ popped = << <<"x">>, <<"a">>, None >>
  /\ mbids = << <<"b">> >>
  /\ images[1].url = CAA_MISSING_IMAGE
  /\ images[2].url = resolve_cover_art(<<"a">>)
  /\ images[3].url = CAA_MISSING_IMAGE

-----------------------------------------------------------------------------
(* C4 *)

\* the pixel (px, py) lies in the box of the placement
C4_InPlacement(img, px, py) ==
  /\ img.x <= px /\ px < img.x + img.width
  /\ img.y <= py /\ py < img.y + img.height

\* C4, as stated: the boxes of the dimension * dimension cells, as load_images
\* emits them for the default layout (x, y, width, height), tile the square of
\* image_size pixels: every pixel lies in exactly one cell's box.
C4_CellsTileTheImage ==
  ( /\ pc = "done"
    /\ layout = None /\ tile_addrs = None
    /\ dimension \in {2, 3, 4, 5}
    /\ image_size \in MIN_IMAGE_SIZE..MAX_IMAGE_SIZE
    /\ Len(images) = dimension * dimension
    /\ \A c \in 1..Len(images) : BoxOf(images[c]) = get_tile_position(c - 1) )
  => \A px \in 0..(image_size - 1), py \in 0..(image_size - 1) :
       Cardinality({ c \in 1..Len(images) : C4_InPlacement(images[c], px, py) }) = 1

-----------------------------------------------------------------------------
(* C5 *)

\* C5: placements come in the order of the tile boxes and take the identifiers
\* in the order of the queue; with the default layout and dimension *
\* dimension resolvable identifiers the i-th placement has the box of cell i
\* and the i-th identifier, which for dimension 2 and image_size 750 gives the
\* boxes (0,0,375,375), (375,0,749,375), (0,375,375,749), (375,375,749,749).
C5_DrawOrder ==
  ( /\ pc = "done"
    /\ Len(Original) >= Len(tiles)
    /\ \A i \in 1..Len(tiles) : Resolvable(Original[i]) )
  => /\ Len(images) = Len(tiles)
     /\ \A i \in 1..Len(tiles) :
          images[i] = placement(tiles[i], resolve_cover_art(Original[i]))
     /\ (layout = None /\ tile_addrs = None) =>
          /\ Len(images) = dimension * dimension
          /\ \A i \in 1..Len(images) : BoxOf(images[i]) = CellBox(i - 1)
          /\ (dimension = 2 /\ image_size = 750) =>
               [i \in 1..4 |-> BoxOf(images[i])] =
                 << <<0, 0, 375, 375>>, <<375, 0, 749, 375>>,
                    <<0, 375, 375, 749>>, <<375, 375, 749, 749>> >>

C5_Witness ==
  /\ pc = "done"
  /\ dimension = 2 /\ image_size = 750
  /\ layout = None /\ tile_addrs = None
  /\ popped = << <<"a">>, <<"b">>, <<"b">>, <<"a">> >>
  /\ Len(images) = 4
  /\ BoxOf(images[2]) = <<375, 0, 749, 375>>
  /\ images[2].url = resolve_cover_art(<<"b">>)

-----------------------------------------------------------------------------
(* C6 *)

\* C6: for an address whose tokens are all cell indices of the grid,
\* calculate_bounding_box returns the union box of the cells (least x1 and y1,
\* greatest x2 and y2); one cell gives its own box, and "0,1,3,4" on the 3x3
\* grid of 750 pixels gives the box that spans cells 0, 1, 3 and 4 only.
C6_BoundingBoxIsUnion ==
  (pc = "bbox_done" /\ AllCells(address)) =>
    LET cells == { CellsOf(address)[k] : k \in 1..Len(Tokens(address)) }
        inside(c) == /\ bbox[1] <= CellBox(c)[1] /\ CellBox(c)[3] <= bbox[3]
                     /\ bbox[2] <= CellBox(c)[2] /\ CellBox(c)[4] <= bbox[4]
    IN  /\ bbox = << SetMin({ CellBox(c)[1] : c \in cells }),
                     SetMin({ CellBox(c)[2] : c \in cells }),
                     SetMax({ CellBox(c)[3] : c \in cells }),
                     SetMax({ CellBox(c)[4] : c \in cells }) >>
        /\ Cardinality(cells) = 1 => \A c \in cells : bbox = CellBox(c)
        /\ ( /\ dimension = 3 /\ image_size = 750
             /\ address = <<"0", ",", "1", ",", "3", ",", "4">> )
           => /\ bbox = <<0, 0, 500, 500>>
              /\ \A c \in 0..8 : inside(c) <=> c \in {0, 1, 3, 4}

C6_Witness ==
  /\ pc = "bbox_done"
  /\ dimension = 3 /\ image_size = 750
  /\ address = <<"0", ",", "1", ",", "3", ",", "4">>
  /\ bbox = <<0, 0, 500, 500>>

-----------------------------------------------------------------------------
(* C7 *)

\* C7: an address with a token that is not an integer or not a cell index of
\* the grid has no bounding box, and load_images called with a list of
\* addresses that contains one raises the error naming the first such
\* address: no tile is assembled, no identifier consumed, nothing returned.
C7_InvalidAddressFails ==
  (layout = None /\ tile_addrs # None /\ pc \in {"assembling", "done", "failed"}) =>
    LET addrs == tile_addrs[1]
        bad == { i \in 1..Len(addrs) : ~AllCells(addrs[i]) }
    IN  /\ \A i \in bad : calculate_bounding_box(addrs[i]) = NoBox
        /\ Assembled => bad = {}
        /\ pc = "failed" =>
             /\ bad # {}
             /\ exc = <<BadRequest(addrs[SetMin(bad)])>>
             /\ images = <<>> /\ popped = <<>> /\ ti = 0

C7_Witness ==
  /\ pc = "failed"
  /\ dimension = 3
  /\ tile_addrs = << << <<"1">>, <<"9">>, <<"x">> >> >>
  /\ exc # None
  /\ exc[1].arg = <<"9">>
  /\ images = <<>>
  /\ mbids # <<>>

-----------------------------------------------------------------------------
(* C8 *)

C8_Validated == pc \in {"validated", "rejected"}

C8_DimensionOk == dimension \in {2, 3, 4, 5}

C8_LayoutOk ==
  layout = None \/ (C8_DimensionOk /\ layout[1] < Len(GRID_TILE_DESIGNS[dimension]))

C8_BackgroundOk == background \in NamedColors \/ parse_color_code(background) # None

C8_ImageSizeOk == image_size >= 128 /\ image_size <= 1024

C8_SkipMissingOk == skip_missing.type = "bool"

C8_PolicyOk == show_caa_image_for_missing_covers.type = "bool"

\* C8, as stated: validate_parameters returns no error exactly when the six
\* checks pass (dimension, layout selector, background, image size,
\* skip_missing, missing-art policy).
C8_SixChecks ==
  C8_Validated =>
    ( err = None <=>
        /\ C8_DimensionOk /\ C8_LayoutOk /\ C8_BackgroundOk
        /\ C8_ImageSizeOk /\ C8_SkipMissingOk /\ C8_PolicyOk )

\* C8, amended: validate_parameters returns no error exactly when its four
\* checks pass, and otherwise the error of the first failing check in the
\* order dimension, background, image size, skip_missing; the four errors are
\* distinct. The layout selector and the missing-art policy are not checked.
C8_FourChecks ==
  C8_Validated =>
    /\ err = None <=>
         (C8_DimensionOk /\ C8_BackgroundOk /\ C8_ImageSizeOk /\ C8_SkipMissingOk)
    /\ (pc = "validated") <=> (err = None)
    /\ ~C8_DimensionOk => err = <<DimensionError>>
    /\ (C8_DimensionOk /\ ~C8_BackgroundOk) => err = <<BackgroundError(background)>>
    /\ (C8_DimensionOk /\ C8_BackgroundOk /\ ~C8_ImageSizeOk) => err = <<ImageSizeError>>
    /\ (C8_DimensionOk /\ C8_BackgroundOk /\ C8_ImageSizeOk /\ ~C8_SkipMissingOk)
         => err = <<SkipMissingError>>
    /\ Cardinality({ DimensionError.msg, BackgroundError(background).msg,
                     ImageSizeError.msg, SkipMissingError.msg }) = 4

C8_Witness ==
  /\ pc = "rejected"
  /\ dimension = 3
  /\ image_size = 100
  /\ background = <<"#", "1", "2", "G", "4", "5", "6">>
  /\ skip_missing.type = "str"
  /\ err = <<BackgroundError(background)>>

-----------------------------------------------------------------------------
(* C9 *)

C9_IsHexDigit(c) == DigitValue(c) \in 0..15

\* C9, as stated: a background is accepted only if it is one of the three
\* names or has exactly 7 characters, '#' and six hexadecimal digits.
C9_OnlySevenCharacterCodes ==
  pc = "validated" =>
    \/ background \in NamedColors
    \/ /\ Len(background) = 7
       /\ background[1] = "#"
       /\ \A i \in 2..7 : C9_IsHexDigit(background[i])

-----------------------------------------------------------------------------
(* C10 *)

\* the cell indices listed by a design, in the order of its addresses
RECURSIVE C10_Listed(_)
C10_Listed(design) ==
  IF design = <<>> THEN <<>>
  ELSE CellsOf(Head(design)) \o C10_Listed(Tail(design))

\* C10: every design of the catalog for the dimension lists cell indices of
\* the grid only, lists none twice and lists every one.
C10_CatalogCoversGridOnce ==
  (pc = "bbox_done" /\ dimension \in DOMAIN GRID_TILE_DESIGNS) =>
    \A l \in 1..Len(GRID_TILE_DESIGNS[dimension]) :
      LET design == GRID_TILE_DESIGNS[dimension][l]
      IN  /\ \A i \in 1..Len(design) : AllCells(design[i])
          /\ \A listed \in {C10_Listed(design)} :
               /\ \A i, j \in 1..Len(listed) : listed[i] = listed[j] => i = j
               /\ { listed[i] : i \in 1..Len(listed) } = 0..(dimension * dimension - 1)

C10_Witness ==
  /\ pc = "bbox_done"
  /\ dimension = 4 /\ image_size = 1024
  /\ address = GRID_TILE_DESIGNS[4][3][2]
  /\ bbox = <<512, 512, 1023, 1023>>

-----------------------------------------------------------------------------
(* C11 *)

\* the request to the stats host has been answered
C11_Answered == http_requests >= 1

=============================================================================
